---- MODULE Spec2Model ----
(***************************************************************************)
(* NavKiosk image utilities.                                               *)
(*                                                                         *)
(*   generate_tiles.py  cuts a source image into a cols x rows grid,       *)
(*                      writes one solid-colour tile per non-empty cell    *)
(*                      and a contact-sheet preview (main, build_preview). *)
(*   img.py             paints an image of randomly coloured blocks        *)
(*                      (generate_random_image).                           *)
(*                                                                         *)
(* Four specifications share the module:                                   *)
(*   Spec         one run of generate_tiles.main against a disk            *)
(*   SpecTwice    two runs of it, the second in the same second or later   *)
(*   SpecPreview  build_preview on its own, over all its parameters        *)
(*   SpecImg      generate_random_image                                    *)
(***************************************************************************)
EXTENDS Integers, Sequences, FiniteSets

(***************************************************************************)
(* Bounds of the model.                                                    *)
(***************************************************************************)
\* source image sizes 1..MaxW x 1..MaxH, and one wider image WideW
MaxW == 3
MaxH == 2
WideW == 29
\* --cols in 0..MaxCols or WideCols, --rows in 0..MaxRows
MaxCols == 3
MaxRows == 2
WideCols == 14
\* build_preview on its own
MaxTiles == 4
MaxSheetCols == 3
MaxSheetTile == 2
MaxPadding == 2
\* generate_random_image
MaxBlocksW == 2
MaxBlocksH == 2
MaxBlockSize == 2
MaxColour == 1

(***************************************************************************)
(* Arithmetic.  Python's int(round(c * (w / cols))) works on IEEE-754      *)
(* doubles: w / cols is rounded to 53 bits, the product with c is rounded  *)
(* to 53 bits again, and round() then rounds the double half-to-even.      *)
(***************************************************************************)
RECURSIVE Pow2(_)
Pow2(n) == IF n <= 0 THEN 1 ELSE 2 * Pow2(n - 1)

\* 2^k mod m
RECURSIVE Pow2Mod(_, _)
Pow2Mod(k, m) == IF k <= 0 THEN 1 % m ELSE (2 * Pow2Mod(k - 1, m)) % m

\* the binary exponent of n/d (n, d > 0): the e with 2^e <= n/d < 2^(e+1)
RECURSIVE ExpUp(_, _, _)
ExpUp(n, d, e) == IF n >= d * Pow2(e + 1) THEN ExpUp(n, d, e + 1) ELSE e
RECURSIVE ExpDown(_, _, _)
ExpDown(n, d, j) == IF n * Pow2(j) >= d THEN 0 - j ELSE ExpDown(n, d, j + 1)
BinExp(n, d) == IF n >= d THEN ExpUp(n, d, 0) ELSE ExpDown(n, d, 1)

\* n/d rounded to the nearest integer, halves to the even one (d > 0, n >= 0)
RoundHalfEven(n, d) ==
    LET q == n \div d
        r == n % d
    IN  IF 2 * r > d \/ (2 * r = d /\ q % 2 = 1) THEN q + 1 ELSE q

\* cell_w = w / cols as a double: with e = BinExp(w, cols) the mantissa M is
\* w * 2^(52-e) / cols rounded half-to-even, and the result is the signed
\* remainder w * 2^(52-e) - M * cols, so that
\*     cell_w = w/cols - DivErr(w, cols) * 2^(e-52) / cols.
DivErr(w, cols) ==
    LET k     == 52 - BinExp(w, cols)
        rem2  == (w * Pow2Mod(k, 2 * cols)) % (2 * cols)
        isOdd == rem2 >= cols
        r     == IF isOdd THEN rem2 - cols ELSE rem2
    IN  IF 2 * r < cols THEN r
        ELSE IF 2 * r > cols THEN r - cols
        ELSE IF isOdd THEN r - cols ELSE r

\* a variant that truncates: int(c * cell_w)
TruncatedProduct(c, w, cols) == (c * w) \div cols

\* int(round(c * cell_w)) with cell_w = w / cols, all in doubles (c >= 0,
\* w, cols >= 1).  Off a half the double product rounds as the exact c*w/cols
\* does.  At an exact half T = k + 1/2 the product is T - eps with
\* eps = c * DivErr * 2^(e-52) / cols; it is rounded to the double T when
\* |eps| is at most half the gap between T and its neighbour on that side
\* (T has an even mantissa), and otherwise falls strictly below or above T.
RoundedProduct(c, w, cols) ==
    LET n   == c * w
        k   == n \div cols
        rho == DivErr(w, cols)
        e   == BinExp(w, cols)
        tE  == BinExp(2 * k + 1, 2)
        gap == IF rho > 0 /\ 2 * k + 1 = Pow2(tE + 1) THEN tE - 54 ELSE tE - 53
        s   == e - 52 - gap
        mag == IF rho < 0 THEN 0 - rho ELSE rho
        a   == IF s >= 0 THEN c * mag * Pow2(s) ELSE c * mag
        b   == IF s >= 0 THEN cols ELSE cols * Pow2(0 - s)
    IN  IF (2 * n) % (2 * cols) # cols \/ rho = 0 \/ a <= b
        THEN RoundHalfEven(n, cols)
        ELSE IF rho > 0 THEN k ELSE k + 1

Min(a, b) == IF a <= b THEN a ELSE b
Max(a, b) == IF a >= b THEN a ELSE b
\* math.ceil(n / d), d > 0
CeilDiv(n, d) == (n + d - 1) \div d

(***************************************************************************)
(* generate_tiles.py                                                       *)
(***************************************************************************)
VARIABLES
    args,      \* the parsed command line and the source it names
    clock,     \* the wall clock, in seconds
    dirs,      \* the seconds s for which Desktop/image_tiles_<s> exists
    files,     \* files[s]: file name -> content, of that folder
    run,       \* 1 for the first run of the tool, 2 for the second
    pc,        \* where main is
    stamp,     \* timestamp  (main, line 96)
    cols,      \* cols, rows (main, lines 89-90)
    rows,
    r,         \* the loop variables of lines 103-104
    c,
    tiles,     \* tiles      (main, line 100)
    log,       \* what the run printed
    exit,      \* <<>> while the run goes on, then <<exit code>>
    visited,   \* the grid cells the loop went through, with their bounds
    faulted,   \* the run met an I/O error of the environment
    first      \* how the first run ended, once the second has begun

toolVars == <<args, clock, dirs, files, run, pc, stamp, cols, rows, r, c,
              tiles, log, exit, visited, faulted, first>>

VARIABLES pvArgs, pvPc, pvOut
previewVars == <<pvArgs, pvPc, pvOut>>

VARIABLES imArgs, imPc, bx, by, pixels, writes, sampled
imgVars == <<imArgs, imPc, bx, by, pixels, writes, sampled>>

vars == <<toolVars, previewVars, imgVars>>

Sources == {"missing", "corrupt", "ok"}
Widths == (1..MaxW) \cup {WideW}
Heights == 1..MaxH
ColsArgs == (0..MaxCols) \cup {WideCols}
RowsArgs == 0..MaxRows
Stamps == {1, 2}
\* the defaults of --tile-size and --preview-cols
DefaultTileSize == 256
DefaultPreviewCols == 8
TileSizes == {DefaultTileSize}
PreviewColsArgs == {0, 1, DefaultPreviewCols}

\* padding=2 of build_preview
DefaultPadding == 2

\* a variant: os.makedirs(out_dir) alone
ExistOkFalse == FALSE

\* os.makedirs(out_dir, exist_ok=True)
ExistOk == TRUE

\* int(round(c * cell_w)) etc. of lines 105-111
CellLeft(cc, w, nc) == RoundedProduct(cc, w, nc)
CellRight(cc, w, nc) == Min(RoundedProduct(cc + 1, w, nc), w)
CellBox(rr, cc, w, h, nc, nr) ==
    <<CellLeft(cc, w, nc), CellLeft(rr, h, nr),
      CellRight(cc, w, nc), CellRight(rr, h, nr)>>
\* right <= left or lower <= upper
Degenerate(box) == box[3] <= box[1] \/ box[4] <= box[2]

\* a variant with the indices swapped
TileNameSwapped(rr, cc) == <<"tile_r", cc, "_c", rr, ".png">>

TileName(rr, cc) == <<"tile_r", rr, "_c", cc, ".png">>
PreviewName == <<"preview.png">>

Put(f, name, content) ==
    [n \in DOMAIN f \cup {name} |-> IF n = name THEN content ELSE f[n]]

(***************************************************************************)
(* build_preview                                                           *)
(***************************************************************************)
\* a variant that wraps without moving down
NextCursorSameRow(i, x, y, nc, ts, pad) ==
    IF (i + 1) % nc = 0 THEN <<pad, y>> ELSE <<x + ts + pad, y>>

\* lines 62-65: the cursor after pasting tile i (0-based)
NextCursor(i, x, y, nc, ts, pad) ==
    IF (i + 1) % nc = 0 THEN <<pad, y + ts + pad>> ELSE <<x + ts + pad, y>>

\* lines 58-65: where tiles i, i+1, ..., n-1 are pasted, the cursor at (x, y)
RECURSIVE PasteFrom(_, _, _, _, _, _, _)
PasteFrom(n, i, x, y, nc, ts, pad) ==
    IF i >= n THEN <<>>
    ELSE LET nxt == NextCursor(i, x, y, nc, ts, pad)
         IN  <<<<x, y>>>> \o PasteFrom(n, i + 1, nxt[1], nxt[2], nc, ts, pad)

\* a variant that sizes the sheet for the tiles there are
SheetSizeShrunk(n, nc, ts, pad) ==
    LET used == Min(n, nc)
        nr   == CeilDiv(n, nc)
    IN  <<used * ts + (used + 1) * pad, nr * ts + (nr + 1) * pad>>

\* lines 54-57: the size of the sheet
SheetSize(n, nc, ts, pad) ==
    LET nr == CeilDiv(n, nc)
    IN  <<nc * ts + (nc + 1) * pad, nr * ts + (nr + 1) * pad>>

\* line 54 divides by cols
PreviewRaises(n, nc, ts, pad) == nc = 0

BuildPreview(n, nc, ts, pad) ==
    [size |-> SheetSize(n, nc, ts, pad),
     at   |-> PasteFrom(n, 0, pad, pad, nc, ts, pad)]

(***************************************************************************)
(* main                                                                    *)
(***************************************************************************)
Terminated == pc \in {"done", "exited", "crashed"}

\* an exception nothing catches: the traceback, exit code 1
Crash(what) ==
    /\ pc' = "crashed"
    /\ exit' = <<1>>
    /\ log' = Append(log, <<"Traceback", what>>)

\* a variant that makes the output folder before it looks at the source
CheckSourceAfterFolder ==
    /\ pc = "check"
    /\ dirs' = dirs \cup {clock}
    /\ IF args.source = "missing"
       THEN /\ log' = Append(log, <<"Source image not found">>)
            /\ exit' = <<1>>
            /\ pc' = "exited"
       ELSE /\ pc' = "open"
            /\ UNCHANGED <<log, exit>>
    /\ UNCHANGED <<args, clock, files, run, stamp, cols, rows, r, c,
                   tiles, visited, faulted, first>>

\* lines 78-81
CheckSource ==
    /\ pc = "check"
    /\ IF args.source = "missing"
       THEN /\ log' = Append(log, <<"Source image not found">>)
            /\ exit' = <<1>>
            /\ pc' = "exited"
       ELSE /\ pc' = "open"
            /\ UNCHANGED <<log, exit>>
    /\ UNCHANGED <<args, clock, dirs, files, run, stamp, cols, rows, r, c,
                   tiles, visited, faulted, first>>

\* lines 83-94
OpenImage ==
    /\ pc = "open"
    /\ IF args.source = "corrupt"
       THEN /\ log' = Append(log, <<"Failed to open image">>)
            /\ exit' = <<1>>
            /\ pc' = "exited"
            /\ UNCHANGED <<cols, rows>>
       ELSE /\ cols' = Max(1, args.cols)
            /\ rows' = Max(1, args.rows)
            /\ pc' = "mkdir"
            /\ UNCHANGED <<log, exit>>
    /\ UNCHANGED <<args, clock, dirs, files, run, stamp, r, c, tiles, visited,
                   faulted, first>>

\* lines 96-101, ensure_desktop_folder: the folder is made, or is there
EnsureDesktopFolder ==
    /\ pc = "mkdir"
    /\ stamp' = clock
    /\ IF clock \in dirs /\ ~ExistOk
       THEN /\ Crash("FileExistsError")
            /\ UNCHANGED <<dirs, tiles, r, c>>
       ELSE /\ dirs' = dirs \cup {clock}
            /\ tiles' = <<>>
            /\ log' = Append(log, <<"Source image", args.w, args.h, cols, rows>>)
            /\ r' = 0
            /\ c' = 0
            /\ pc' = "loop"
            /\ UNCHANGED exit
    /\ UNCHANGED <<args, clock, files, run, cols, rows, visited, faulted, first>>

\* ensure_desktop_folder: os.makedirs raises OSError (no Desktop to write to)
MakedirsFails ==
    /\ pc = "mkdir"
    /\ clock \notin dirs
    /\ stamp' = clock
    /\ faulted' = TRUE
    /\ Crash("OSError")
    /\ UNCHANGED <<args, clock, dirs, files, run, cols, rows, r, c, tiles,
                   visited, first>>

\* the loop header of lines 103-104, after the body at (r, c)
Advance ==
    IF c + 1 < cols
    THEN /\ c' = c + 1
         /\ UNCHANGED <<r, pc>>
    ELSE /\ c' = 0
         /\ r' = r + 1
         /\ pc' = IF r + 1 < rows THEN "loop" ELSE "preview"

Candidate == [r |-> r, c |-> c, box |-> CellBox(r, c, args.w, args.h, cols, rows)]

\* a variant that also skips the cells one pixel wide or high
SkipsThinCell(box) == box[3] <= box[1] + 1 \/ box[4] <= box[2] + 1

\* lines 112-114: the cell is skipped
SkipsCell(box) == Degenerate(box)

\* lines 115-117: the tile of a cell
MakeTile(rr, cc, box) ==
    [cell |-> <<rr, cc>>, colour |-> box, size |-> <<args.tile_size, args.tile_size>>]

\* lines 118-121: what saving the tile of a cell leaves in files and tiles
SavedFiles(box) == Put(files[stamp], TileName(r, c), [image |-> MakeTile(r, c, box), run |-> run])
KeptTiles(box) == Append(tiles, MakeTile(r, c, box))

\* one pass of the loop body, lines 105-121
TileStep ==
    /\ pc = "loop"
    /\ LET box == Candidate.box
       IN  /\ visited' = Append(visited, Candidate)
           /\ IF SkipsCell(box)
              THEN /\ log' = Append(log, <<"Skipping empty cell", r, c>>)
                   /\ UNCHANGED <<files, tiles>>
              ELSE /\ files' = [files EXCEPT ![stamp] = SavedFiles(box)]
                   /\ tiles' = KeptTiles(box)
                   /\ UNCHANGED log
    /\ Advance
    /\ UNCHANGED <<args, clock, dirs, run, stamp, cols, rows, exit, faulted, first>>

\* a variant that catches the error of tile.save, reports it and goes on
TileSaveCaught ==
    /\ pc = "loop"
    /\ ~SkipsCell(Candidate.box)
    /\ visited' = Append(visited, Candidate)
    /\ faulted' = TRUE
    /\ log' = Append(log, <<"Failed to save tile", r, c>>)
    /\ Advance
    /\ UNCHANGED <<args, clock, dirs, files, run, stamp, cols, rows, exit,
                   tiles, first>>

\* line 120: tile.save raises (disk full, folder removed): nothing catches it
TileSaveFails ==
    /\ pc = "loop"
    /\ ~SkipsCell(Candidate.box)
    /\ visited' = Append(visited, Candidate)
    /\ faulted' = TRUE
    /\ Crash("OSError")
    /\ UNCHANGED <<args, clock, dirs, files, run, stamp, cols, rows, r, c,
                   tiles, first>>

\* the preview of the tiles list, as main calls build_preview (line 125)
PreviewImage ==
    [size   |-> SheetSize(Len(tiles), args.preview_cols, args.tile_size, DefaultPadding),
     pasted |-> LET at == PasteFrom(Len(tiles), 0, DefaultPadding, DefaultPadding,
                                    args.preview_cols, args.tile_size, DefaultPadding)
                IN  [i \in 1..Len(tiles) |-> [at |-> at[i], tile |-> tiles[i]]]]

\* a variant without the try of line 124
PreviewFailureUncaught(what) == Crash(what) /\ UNCHANGED files

\* except Exception (line 129): what a failed preview does to the run
PreviewFailure(what) ==
    /\ log' = Append(log, <<"Failed to build preview", what>>)
    /\ pc' = "finish"
    /\ UNCHANGED <<files, exit>>

\* lines 123-130
BuildAndSavePreview ==
    /\ pc = "preview"
    /\ IF PreviewRaises(Len(tiles), args.preview_cols, args.tile_size, DefaultPadding)
       THEN PreviewFailure("ZeroDivisionError")
       ELSE /\ files' = [files EXCEPT ![stamp] =
                   Put(files[stamp], PreviewName, [image |-> PreviewImage, run |-> run])]
            /\ log' = Append(log, <<"Saved preview">>)
            /\ pc' = "finish"
            /\ UNCHANGED exit
    /\ UNCHANGED <<args, clock, dirs, run, stamp, cols, rows, r, c, tiles,
                   visited, faulted, first>>

\* line 127: preview.save raises; the except clause of line 129 catches it
PreviewSaveFails ==
    /\ pc = "preview"
    /\ ~PreviewRaises(Len(tiles), args.preview_cols, args.tile_size, DefaultPadding)
    /\ faulted' = TRUE
    /\ PreviewFailure("OSError")
    /\ UNCHANGED <<args, clock, dirs, run, stamp, cols, rows, r, c, tiles,
                   visited, first>>

\* line 132, and the end of the script
Done ==
    /\ pc = "finish"
    /\ log' = Append(log, <<"Done.">>)
    /\ exit' = <<0>>
    /\ pc' = "done"
    /\ UNCHANGED <<args, clock, dirs, files, run, stamp, cols, rows, r, c,
                   tiles, visited, faulted, first>>

\* the user runs the tool again on the same source with the same arguments,
\* within the same second or later
Rerun ==
    /\ Terminated
    /\ run = 1
    /\ run' = 2
    /\ first' = <<[pc |-> pc, exit |-> exit, stamp |-> stamp, faulted |-> faulted,
                   names |-> IF stamp \in dirs THEN DOMAIN files[stamp] ELSE {},
                   log |-> log]>>
    /\ \E later \in BOOLEAN : clock' = IF later THEN clock + 1 ELSE clock
    /\ pc' = "check"
    /\ stamp' = 0
    /\ cols' = 0
    /\ rows' = 0
    /\ r' = 0
    /\ c' = 0
    /\ tiles' = <<>>
    /\ log' = <<>>
    /\ exit' = <<>>
    /\ visited' = <<>>
    /\ faulted' = FALSE
    /\ UNCHANGED <<args, dirs, files>>

IdlePreview == pvArgs = <<>> /\ pvPc = "idle" /\ pvOut = <<>>
IdleImg ==
    /\ imArgs = <<>>
    /\ imPc = "idle"
    /\ bx = 0
    /\ by = 0
    /\ pixels = <<>>
    /\ writes = <<>>
    /\ sampled = <<>>

InitTool ==
    /\ clock = 1
    /\ dirs = {}
    /\ files = [s \in Stamps |-> <<>>]
    /\ run = 1
    /\ pc = "check"
    /\ stamp = 0
    /\ cols = 0
    /\ rows = 0
    /\ r = 0
    /\ c = 0
    /\ tiles = <<>>
    /\ log = <<>>
    /\ exit = <<>>
    /\ visited = <<>>
    /\ faulted = FALSE
    /\ first = <<>>

\* one run of the tool, on any source and grid
Init ==
    /\ args \in [source : Sources, w : Widths, h : Heights, cols : ColsArgs,
                 rows : RowsArgs, tile_size : TileSizes,
                 preview_cols : PreviewColsArgs]
    /\ InitTool
    /\ IdlePreview
    /\ IdleImg

\* two runs of the tool, on the narrow sources and grids
InitTwice ==
    /\ args \in [source : Sources, w : 1..MaxW, h : Heights, cols : 0..MaxCols,
                 rows : RowsArgs, tile_size : TileSizes,
                 preview_cols : PreviewColsArgs]
    /\ InitTool
    /\ IdlePreview
    /\ IdleImg

Next ==
    \/ CheckSource /\ UNCHANGED <<previewVars, imgVars>>
    \/ OpenImage /\ UNCHANGED <<previewVars, imgVars>>
    \/ EnsureDesktopFolder /\ UNCHANGED <<previewVars, imgVars>>
    \/ MakedirsFails /\ UNCHANGED <<previewVars, imgVars>>
    \/ TileStep /\ UNCHANGED <<previewVars, imgVars>>
    \/ TileSaveFails /\ UNCHANGED <<previewVars, imgVars>>
    \/ BuildAndSavePreview /\ UNCHANGED <<previewVars, imgVars>>
    \/ PreviewSaveFails /\ UNCHANGED <<previewVars, imgVars>>
    \/ Done /\ UNCHANGED <<previewVars, imgVars>>

NextTwice ==
    \/ Next
    \/ Rerun /\ UNCHANGED <<previewVars, imgVars>>

Spec == Init /\ [][Next]_vars

SpecTwice == InitTwice /\ [][NextTwice]_vars

(***************************************************************************)
(* build_preview called on its own: any number of tiles, any padding       *)
(***************************************************************************)
InitPreview ==
    /\ pvArgs \in [n : 0..MaxTiles, cols : 0..MaxSheetCols,
                   tile_size : 1..MaxSheetTile, padding : 0..MaxPadding]
    /\ pvPc = "call"
    /\ pvOut = <<>>

IdleTool ==
    /\ args = <<>>
    /\ clock = 0
    /\ dirs = {}
    /\ files = <<>>
    /\ run = 0
    /\ pc = "idle"
    /\ stamp = 0
    /\ cols = 0
    /\ rows = 0
    /\ r = 0
    /\ c = 0
    /\ tiles = <<>>
    /\ log = <<>>
    /\ exit = <<>>
    /\ visited = <<>>
    /\ faulted = FALSE
    /\ first = <<>>

\* lines 52-66
BuildPreviewReturns ==
    /\ pvPc = "call"
    /\ ~PreviewRaises(pvArgs.n, pvArgs.cols, pvArgs.tile_size, pvArgs.padding)
    /\ pvOut' = BuildPreview(pvArgs.n, pvArgs.cols, pvArgs.tile_size, pvArgs.padding)
    /\ pvPc' = "returned"
    /\ UNCHANGED pvArgs

\* line 54 with cols = 0
BuildPreviewRaises ==
    /\ pvPc = "call"
    /\ PreviewRaises(pvArgs.n, pvArgs.cols, pvArgs.tile_size, pvArgs.padding)
    /\ pvPc' = "raised"
    /\ UNCHANGED <<pvArgs, pvOut>>

NextPreview ==
    \/ BuildPreviewReturns /\ UNCHANGED <<toolVars, imgVars>>
    \/ BuildPreviewRaises /\ UNCHANGED <<toolVars, imgVars>>

PreviewInit == InitPreview /\ IdleTool /\ IdleImg

SpecPreview == PreviewInit /\ [][NextPreview]_vars

(***************************************************************************)
(* img.py: generate_random_image                                           *)
(***************************************************************************)
\* random_color(), from a small palette; Image.new('RGB', size) is black
Colours == 0..MaxColour
Black == 0

\* a variant that forgets to scale the block index
BlockSpanUnscaled(b, bs) == b..(b + bs - 1)

\* range(x0, x1) of line 26 (and range(y0, y1) of line 27) for block b
BlockSpan(b, bs) == (b * bs)..((b + 1) * bs - 1)

InitImg ==
    /\ imArgs \in [width : 0..MaxBlocksW, height : 0..MaxBlocksH,
                   block_size : 0..MaxBlockSize]
    /\ imPc = "new"
    /\ bx = 0
    /\ by = 0
    /\ pixels = <<>>
    /\ writes = <<>>
    /\ sampled = <<>>

\* lines 19-21, and the loop headers when there is no block to paint
NewImage ==
    /\ imPc = "new"
    /\ LET dom == (0..(imArgs.width * imArgs.block_size - 1))
                  \X (0..(imArgs.height * imArgs.block_size - 1))
       IN  /\ pixels' = [p \in dom |-> Black]
           /\ writes' = [p \in dom |-> 0]
    /\ imPc' = IF imArgs.width > 0 /\ imArgs.height > 0 THEN "paint" ELSE "save"
    /\ UNCHANGED <<imArgs, bx, by, sampled>>

\* lines 25-30 for block (bx, by), then the loop headers of lines 23-24
PaintBlock ==
    /\ imPc = "paint"
    /\ \E colour \in Colours :
         LET span == BlockSpan(bx, imArgs.block_size) \X BlockSpan(by, imArgs.block_size)
         IN  /\ sampled' = [b \in DOMAIN sampled \cup {<<bx, by>>} |->
                              IF b = <<bx, by>> THEN colour ELSE sampled[b]]
             /\ pixels' = [p \in DOMAIN pixels |->
                              IF p \in span THEN colour ELSE pixels[p]]
             /\ writes' = [p \in DOMAIN writes |->
                              IF p \in span THEN writes[p] + 1 ELSE writes[p]]
    /\ IF by + 1 < imArgs.height
       THEN /\ by' = by + 1
            /\ UNCHANGED <<bx, imPc>>
       ELSE /\ by' = 0
            /\ bx' = bx + 1
            /\ imPc' = IF bx + 1 < imArgs.width THEN "paint" ELSE "save"
    /\ UNCHANGED imArgs

\* line 32
SaveImage ==
    /\ imPc = "save"
    /\ imPc' = "saved"
    /\ UNCHANGED <<imArgs, bx, by, pixels, writes, sampled>>

NextImg ==
    \/ NewImage /\ UNCHANGED <<toolVars, previewVars>>
    \/ PaintBlock /\ UNCHANGED <<toolVars, previewVars>>
    \/ SaveImage /\ UNCHANGED <<toolVars, previewVars>>

ImgInit == InitImg /\ IdleTool /\ IdlePreview

SpecImg == ImgInit /\ [][NextImg]_vars

(***************************************************************************)
(* Properties of the grid loop of main                                     *)
(***************************************************************************)
LoopOver == pc \in {"preview", "finish", "done"}

\* the cells of the grid in row-major order
RowMajor == [i \in 1..(cols * rows) |-> <<(i - 1) \div cols, (i - 1) % cols>>]

\* the loop goes through the cells in row-major order, all of them by its end
VisitsRowMajor ==
    /\ Len(visited) <= cols * rows
    /\ \A i \in 1..Len(visited) : <<visited[i].r, visited[i].c>> = RowMajor[i]
    /\ LoopOver => Len(visited) = cols * rows

\* every candidate lies in the image
InsideImage ==
    \A i \in 1..Len(visited) :
        LET b == visited[i].box
        IN  /\ 0 <= b[1] /\ b[1] <= b[3] /\ b[3] <= args.w
            /\ 0 <= b[2] /\ b[2] <= b[4] /\ b[4] <= args.h

\* no gap and no overlap: the first column starts at 0, the last ends at w,
\* each column ends where the next starts; likewise for the rows
Seamless ==
    \A i \in 1..Len(visited) :
        LET v == visited[i]
        IN  /\ v.c = 0 => v.box[1] = 0
            /\ v.c = cols - 1 => v.box[3] = args.w
            /\ v.r = 0 => v.box[2] = 0
            /\ v.r = rows - 1 => v.box[4] = args.h
            /\ v.c > 0 => visited[i - 1].box[3] = v.box[1]
            /\ v.r > 0 => visited[i - cols].box[4] = v.box[2]
            /\ v.c > 0 => (visited[i - 1].box[2] = v.box[2] /\ visited[i - 1].box[4] = v.box[4])
            /\ v.r > 0 => (visited[i - cols].box[1] = v.box[1] /\ visited[i - cols].box[3] = v.box[3])

\* k is i*n/d rounded half-to-even
IsHalfEven(k, i, n, d) == k = RoundHalfEven(i * n, d)
\* k is an integer nearest to i*n/d: |k - i*n/d| <= 1/2
IsNearest(k, i, n, d) ==
    /\ 2 * k * d - 2 * i * n <= d
    /\ 2 * i * n - 2 * k * d <= d

BoundsHalfEven ==
    \A i \in 1..Len(visited) :
        LET v == visited[i]
        IN  /\ IsHalfEven(v.box[1], v.c, args.w, cols)
            /\ IsHalfEven(v.box[3], v.c + 1, args.w, cols)
            /\ IsHalfEven(v.box[2], v.r, args.h, rows)
            /\ IsHalfEven(v.box[4], v.r + 1, args.h, rows)

BoundsNearest ==
    \A i \in 1..Len(visited) :
        LET v == visited[i]
        IN  /\ IsNearest(v.box[1], v.c, args.w, cols)
            /\ IsNearest(v.box[3], v.c + 1, args.w, cols)
            /\ IsNearest(v.box[2], v.r, args.h, rows)
            /\ IsNearest(v.box[4], v.r + 1, args.h, rows)

\* C1 as stated: the loop visits the cols*rows cells in row-major order, every
\* candidate lies in the image, the candidates tile it without gap or overlap,
\* and the bounds are c*w/cols and r*h/rows rounded half-to-even.
C1_HalfEvenGrid == VisitsRowMajor /\ InsideImage /\ Seamless /\ BoundsHalfEven

\* C1 amended: as C1, but a bound is an integer nearest to c*w/cols (r*h/rows);
\* an exact half goes to either neighbour, as the double product falls.
C1_NearestGrid == VisitsRowMajor /\ InsideImage /\ Seamless /\ BoundsNearest

\* the loop has gone through a grid with a bound that is not the half-to-even one
C1_Witness ==
    /\ pc = "preview"
    /\ rows = 2
    /\ Len(visited) = cols * rows
    /\ \E i \in 1..Len(visited) :
         ~IsHalfEven(visited[i].box[1], visited[i].c, args.w, cols)

\* the cells the run reported as skipped
Skipped == {<<log[i][2], log[i][3]>> : i \in {j \in 1..Len(log) : log[j][1] = "Skipping empty cell"}}
Visited == {<<visited[i].r, visited[i].c>> : i \in 1..Len(visited)}

\* C2 as stated: a skipped cell lies in the last column or the last row, and
\* no kept cell follows it in its row or in its column.
C2_OnlyTrailing ==
    \A s \in Skipped :
        /\ s[2] = cols - 1 \/ s[1] = rows - 1
        /\ \A v \in Visited \ Skipped :
             /\ v[1] = s[1] => v[2] < s[2]
             /\ v[2] = s[2] => v[1] < s[1]

\* C2 amended: a cell is skipped only when the grid is finer than the image:
\* its column is empty and cols > w, or its row is empty and rows > h; with
\* cols <= w and rows <= h no cell is skipped.  A skipped cell may lie anywhere
\* in the grid, the first column included.
C2_OnlyFinerThanImage ==
    /\ \A i \in 1..Len(visited) :
         LET v == visited[i]
         IN  <<v.r, v.c>> \in Skipped =>
                \/ v.box[3] = v.box[1] /\ cols > args.w
                \/ v.box[4] = v.box[2] /\ rows > args.h
    /\ (cols <= args.w /\ rows <= args.h) => Skipped = {}

\* a skipped cell in the first column, with a kept cell after it in its row
C2_Witness ==
    /\ LoopOver
    /\ \E s \in Skipped : \E v \in Visited \ Skipped :
         s[2] = 0 /\ v[1] = s[1] /\ v[2] > s[2]

\* the non-degenerate cells of the grid, in row-major order
IsKept(cell) == ~Degenerate(CellBox(cell[1], cell[2], args.w, args.h, cols, rows))
KeptCells == SelectSeq(RowMajor, IsKept)
WrittenNow == IF stamp \in dirs
              THEN {n \in DOMAIN files[stamp] : files[stamp][n].run = run}
              ELSE {}

\* C3: when build_preview is called, tiles holds one tile per non-degenerate
\* cell in row-major order and the tile files written are those of exactly
\* these cells; the preview gives the i-th tile of the list the i-th slot.
C3_TilesAreKeptCells ==
    /\ pc = "preview" =>
         /\ Len(tiles) = Len(KeptCells)
         /\ \A i \in 1..Len(tiles) : tiles[i].cell = KeptCells[i]
         /\ WrittenNow = {<<"tile_r", KeptCells[i][1], "_c", KeptCells[i][2], ".png">> :
                             i \in 1..Len(KeptCells)}
         /\ Skipped \cap {KeptCells[i] : i \in 1..Len(KeptCells)} = {}
    /\ (pc = "finish" /\ PreviewName \in WrittenNow) =>
         LET sheet == files[stamp][PreviewName].image
         IN  /\ Len(sheet.pasted) = Len(KeptCells)
             /\ \A i \in 1..Len(KeptCells) :
                  /\ sheet.pasted[i].tile.cell = KeptCells[i]
                  /\ sheet.pasted[i].at =
                       <<DefaultPadding + ((i - 1) % args.preview_cols) * (args.tile_size + DefaultPadding),
                         DefaultPadding + ((i - 1) \div args.preview_cols) * (args.tile_size + DefaultPadding)>>

\* build_preview is called with a skipped cell before a kept one
C3_Witness ==
    /\ pc = "finish"
    /\ PreviewName \in WrittenNow
    /\ Len(KeptCells) >= 2
    /\ \E s \in Skipped : s[1] = 0 /\ s[2] = 0

(***************************************************************************)
(* Failures                                                                *)
(***************************************************************************)
NoFileAnywhere == \A s \in Stamps : DOMAIN files[s] = {}

\* C6: with a source that is missing or cannot be opened the run prints one
\* message and exits with code 1; no folder is ever made and no file written.
C6_BadSourceNoOutput ==
    args.source # "ok" =>
        /\ dirs = {}
        /\ NoFileAnywhere
        /\ stamp = 0
        /\ pc \in {"check", "open", "exited"}
        /\ pc = "exited" =>
             /\ exit = <<1>>
             /\ log \in {<<<<"Source image not found">>>>, <<<<"Failed to open image">>>>}

\* the run has ended on a source that is there but cannot be decoded
C6_Witness == pc = "exited" /\ args.source = "corrupt" /\ log = <<<<"Failed to open image">>>>

PreviewFailed == \E i \in 1..Len(log) : log[i][1] = "Failed to build preview"

\* every tile of the list is on disk as this run wrote it
TilesOnDisk ==
    \A i \in 1..Len(tiles) :
        LET name == <<"tile_r", tiles[i].cell[1], "_c", tiles[i].cell[2], ".png">>
        IN  /\ name \in DOMAIN files[stamp]
            /\ files[stamp][name] = [image |-> tiles[i], run |-> run]

\* the step of lines 123-130 when it leaves no preview behind
PreviewStepFails == pc = "preview" /\ PreviewName \notin WrittenNow'

\* C7: when the preview cannot be built or saved the run only reports it: the
\* tiles written stay as they are, the run goes on to "Done." and ends with
\* exit code 0.
C7_PreviewFailureOnlyLogged ==
    /\ [][PreviewStepFails =>
            /\ pc' = "finish"
            /\ exit' = <<>>
            /\ files' = files
            /\ TilesOnDisk'
            /\ \E what \in {"ZeroDivisionError", "OSError"} :
                 log' = Append(log, <<"Failed to build preview", what>>)]_vars
    /\ [][pc = "finish" =>
            /\ pc' = "done"
            /\ exit' = <<0>>
            /\ files' = files
            /\ log' = Append(log, <<"Done.">>)]_vars
    /\ [](pc = "finish" => ENABLED Done)
    /\ [](PreviewFailed => (pc \in {"finish", "done"} /\ TilesOnDisk))

\* a run with --preview-cols 0 has ended, its tiles written
C7_Witness ==
    /\ pc = "done"
    /\ args.preview_cols = 0
    /\ PreviewFailed
    /\ Len(tiles) >= 2

\* C8 as stated: whichever of directory creation, tile saving and preview
\* saving fails, the failure is reported and the run goes on.
C8_NoFailureAborts ==
    faulted =>
        /\ pc # "crashed"
        /\ \E i \in 1..Len(log) : log[i][1] \in {"Failed to build preview", "Failed to save tile",
                                                "Failed to create folder"}

\* C8 amended: only a failure of the preview is reported and passed over, the
\* run going on to its end; a failure to make the folder or to save a tile is
\* not caught: the run ends there with a traceback and exit code 1, the tiles
\* written so far staying on disk, and no preview is written.
C8_OnlyPreviewFailureSkipped ==
    faulted =>
        /\ TilesOnDisk
        /\ PreviewName \notin WrittenNow
        /\ \/ /\ pc = "crashed"
              /\ exit = <<1>>
              /\ log[Len(log)] = <<"Traceback", "OSError">>
              /\ ~PreviewFailed
           \/ /\ pc \in {"finish", "done"}
              /\ exit = IF pc = "done" THEN <<0>> ELSE <<>>
              /\ \E i \in 1..Len(log) : log[i] = <<"Failed to build preview", "OSError">>

\* saving a tile failed after another tile had been written
C8_Witness ==
    /\ faulted
    /\ pc = "crashed"
    /\ Len(tiles) >= 1
    /\ TilesOnDisk

(***************************************************************************)
(* Two runs within the same second                                         *)
(***************************************************************************)
SameSecondRerun ==
    /\ run = 2
    /\ first[1].pc = "done"
    /\ ~first[1].faulted
    /\ ~faulted
    /\ pc \notin {"check", "open", "mkdir"}
    /\ stamp = first[1].stamp

\* C9: a second run with the timestamp of a first, successful run does not
\* crash on the folder being there: short of an I/O error it ends with exit
\* code 0, and the folder then holds the same file names as after the first
\* run, each file written anew.
C9_SecondRunOverwrites ==
    /\ (run = 2 /\ ~faulted) => pc # "crashed"
    /\ SameSecondRerun =>
         /\ dirs = {stamp}
         /\ pc = "done" =>
              /\ exit = <<0>>
              /\ DOMAIN files[stamp] = first[1].names
              /\ \A n \in DOMAIN files[stamp] : files[stamp][n].run = 2

\* the second run has ended in the folder of the first, preview included
C9_Witness ==
    /\ SameSecondRerun
    /\ pc = "done"
    /\ PreviewName \in first[1].names
    /\ Cardinality(first[1].names) >= 3

(***************************************************************************)
(* Properties of build_preview                                             *)
(***************************************************************************)
\* the squares of side ts with top-left corners p and q share no pixel
Apart(p, q, ts) ==
    \/ p[1] + ts <= q[1]
    \/ q[1] + ts <= p[1]
    \/ p[2] + ts <= q[2]
    \/ q[2] + ts <= p[2]

\* C4: the squares at which build_preview pastes two distinct tiles do not
\* intersect (cols >= 1, tile_size >= 1, padding >= 0).
C4_PastesApart ==
    pvPc = "returned" =>
        /\ Len(pvOut.at) = pvArgs.n
        /\ \A i, j \in 1..Len(pvOut.at) :
             i # j => Apart(pvOut.at[i], pvOut.at[j], pvArgs.tile_size)

\* a sheet of two full rows without padding
C4_Witness ==
    /\ pvPc = "returned"
    /\ pvArgs.padding = 0
    /\ pvArgs.cols = 2
    /\ pvArgs.n = 4
    /\ Len(pvOut.at) = 4

\* the least k with k * d >= n
CeilOf(n, d) == CHOOSE k \in 0..n : k * d >= n /\ \A m \in 0..(k - 1) : m * d < n

\* C5: the sheet is cols*tile_size + (cols+1)*padding wide and, with
\* rows = ceil(n/cols), rows*tile_size + (rows+1)*padding high, cols being the
\* column count asked for even when there are fewer tiles; 4 tiles in 8
\* columns of size 50 with padding 2 give 418 x 54.
C5_SheetSize ==
    /\ pvPc = "returned" =>
         LET k == CeilOf(pvArgs.n, pvArgs.cols)
         IN  pvOut.size =
               <<pvArgs.cols * pvArgs.tile_size + (pvArgs.cols + 1) * pvArgs.padding,
                 k * pvArgs.tile_size + (k + 1) * pvArgs.padding>>
    /\ BuildPreview(4, 8, 50, 2).size = <<418, 54>>

\* fewer tiles than columns
C5_Witness ==
    /\ pvPc = "returned"
    /\ pvArgs.n >= 1
    /\ pvArgs.n < pvArgs.cols
    /\ pvArgs.padding >= 1

(***************************************************************************)
(* Properties of generate_random_image                                     *)
(***************************************************************************)
Painted == imPc \in {"save", "saved"}

\* C10: the image is width*block_size by height*block_size pixels; no pixel
\* is written twice, and when the loops end every pixel has been written
\* once, with the colour sampled for the block it lies in, so that the image
\* is a function of the colours of the blocks alone.
C10_BlocksPainted ==
    (imPc # "new" /\ imArgs.width >= 1 /\ imArgs.height >= 1 /\ imArgs.block_size >= 1) =>
        LET bs == imArgs.block_size
        IN  /\ DOMAIN pixels = (0..(imArgs.width * bs - 1)) \X (0..(imArgs.height * bs - 1))
            /\ \A p \in DOMAIN pixels :
                 LET b == <<p[1] \div bs, p[2] \div bs>>
                 IN  /\ writes[p] <= 1
                     /\ writes[p] = 1 <=> b \in DOMAIN sampled
                     /\ writes[p] = 1 => pixels[p] = sampled[b]
            /\ Painted => DOMAIN sampled = (0..(imArgs.width - 1)) \X (0..(imArgs.height - 1))

\* an image of 2 x 2 blocks of 2 x 2 pixels, two neighbours of different colour
C10_Witness ==
    /\ imPc = "saved"
    /\ imArgs.width = 2
    /\ imArgs.height = 2
    /\ imArgs.block_size = 2
    /\ pixels[<<1, 1>>] # pixels[<<2, 1>>]
    /\ pixels[<<0, 0>>] = pixels[<<1, 1>>]

====
